---- MODULE Spec2Model ----
(***************************************************************************)
(* A model of loss_visualization.py: the direction sampler                 *)
(* (get_gaussian_vector), the grid builder (create_grid), the parameter    *)
(* snapshot and its application (save_network_weights, update_net_params), *)
(* the dataset aggregator (compute_loss_for_db) and the scan of            *)
(* create_loss_landscape.                                                  *)
(*                                                                         *)
(* Numbers.  Parameters, direction entries and grid values are exact       *)
(* integers in a fixed unit; direction entries are multiples of Scale so   *)
(* that every value np.linspace produces for steps <= MaxSteps is exactly  *)
(* representable.  Floating-point rounding is not modelled.  Probabilities *)
(* are counted in units of 1/ProbDen.  A quotient a/b is kept as the pair  *)
(* <<a, b>>, and -(math.log(a/b)) as <<"neglog", a, b>>.                   *)
(***************************************************************************)
EXTENDS Integers, Sequences, FiniteSets, TLC

\* ------------------------------------------------------------------ bounds

MaxSteps == 3
MaxCols == 2
MaxCount == 3
MaxOver == 1
MaxCalls == 2
MaxDb == 2

\* the record cap of compute_loss_for_db
SampleCap == 10000

\* probabilities are k / ProbDen, k in 0..ProbDen (two classes)
ProbDen == 2

\* ------------------------------------------------------------------ helpers

RECURSIVE Factorial(_)
Factorial(n) == IF n <= 1 THEN 1 ELSE n * Factorial(n - 1)

\* every (steps - 1) with steps <= MaxSteps divides Scale
Scale == Factorial(MaxSteps - 1)

Min(a, b) == IF a <= b THEN a ELSE b

RECURSIVE SumSeq(_)
SumSeq(s) == IF Len(s) = 0 THEN 0 ELSE Head(s) + SumSeq(Tail(s))

SumSq(s) == SumSeq([i \in 1..Len(s) |-> s[i] * s[i]])

\* np.negative
Negative(v) == [i \in 1..Len(v) |-> 0 - v[i]]

\* v[lo:hi] of Python, 0-based, clipped to the length of v
Slice(v, lo, hi) ==
    LET b == Min(hi, Len(v))
    IN  IF b <= lo THEN <<>> ELSE [i \in 1..(b - lo) |-> v[lo + i]]

\* a result of a call: a value, a sentinel (None, 0) or a raised exception
Value(v) == [kind |-> "value", val |-> v]
Sentinel(s) == [kind |-> s, val |-> <<>>]
Raise(e) == [kind |-> "raise", val |-> <<e>>]

\* ------------------------------------------------------- get_gaussian_vector

\* A row of the sampler's matrix: entry i is (num[i] / den) / sqrt(sd2[1] / sd2[2]).
\* A raw draw x is [num |-> x, den |-> 1, sd2 |-> <<1, 1>>].
RawRow(x) == [num |-> x, den |-> 1, sd2 |-> <<1, 1>>]

\* lines 27-31: subtract the mean, divide by the standard deviation unless it is 0.
\* With n entries the centred entry is (n * x[i] - sum(x)) / n and the variance is
\* sum((n * x[i] - sum(x))^2) / n^3.
NormalizeRow(x) ==
    LET n == Len(x)
        c == [i \in 1..n |-> n * x[i] - SumSeq(x)]
    IN  [num |-> c, den |-> n,
         sd2 |-> IF SumSq(c) # 0 THEN <<SumSq(c), n * n * n>> ELSE <<1, 1>>]

\* line 24: the first row is the raw draw
FirstRow(x) == RawRow(x)

\* the draws np.random.normal can make, cut to a small set of integers
RawValues == {0 - 1, 0, 2}

RawRows(n) == [1..n -> RawValues]

\* ---------------------------------------------------------------- create_grid

\* np.linspace with endpoint=False: the step is (stop - start) / num
LinspaceOpen(start, stop, num) ==
    [i \in 1..num |-> start + ((i - 1) * (stop - start)) \div num]

\* np.linspace(start, stop, num) for num >= 1: start + i * (stop - start) / (num - 1),
\* the last entry set to stop; num = 1 gives [start]
Linspace(start, stop, num) ==
    [i \in 1..num |->
        IF num = 1 THEN start
        ELSE IF i = num THEN stop
        ELSE start + ((i - 1) * (stop - start)) \div (num - 1)]

\* np.hstack of a steps x k matrix and a steps x 1 column
HStack(m, col) == [i \in 1..Len(m) |-> Append(m[i], col[i])]

\* lines 127-130: column 0, then columns 1 .. ncols-1 stacked to its right
RECURSIVE GridColumns(_, _, _, _)
GridColumns(start, stop, num, ncols) ==
    IF ncols = 1
    THEN [i \in 1..num |-> <<Linspace(start[1], stop[1], num)[i]>>]
    ELSE HStack(GridColumns(start, stop, num, ncols - 1),
                Linspace(start[ncols], stop[ncols], num))

\* The argument of create_grid: shape "none" (None), "1d" (a flat vector, rows[1]),
\* "2d" (a matrix, rows of one length) or "ragged" (rows of different lengths).
Arg2d(rows) == [shape |-> "2d", rows |-> rows]

\* np.vstack((v, np.negative(v)))
VStackNeg(v) == Arg2d(<<v, Negative(v)>>)

\* lines 117-135.  np.shape of a ragged input either raises (ValueError) or gives the
\* shape (2,), and then vector_shape[1] raises (IndexError); a flat vector of length 2
\* passes the row test and vectors[0][0] indexes a scalar; a 2 x 0 matrix passes it and
\* vectors[0][0] is out of range.
create_grid(vectors, steps) ==
    IF vectors.shape = "none" \/ steps = 0 THEN Sentinel("None")
    ELSE IF vectors.shape = "ragged" THEN Raise("ragged")
    ELSE IF vectors.shape = "1d"
         THEN IF Len(vectors.rows[1]) # 2 THEN Sentinel("None")
              ELSE Raise("IndexError")
    ELSE IF Len(vectors.rows) # 2 THEN Sentinel("None")
    ELSE IF Len(vectors.rows[1]) = 0 THEN Raise("IndexError")
    ELSE Value(GridColumns(vectors.rows[1], vectors.rows[2], steps,
                           Len(vectors.rows[1])))

\* ------------------------------------------------------------------ the model

\* A blob of net.blobs: type "none" when net.layer_dict has no layer of its name.
Blob(type, weights, bias) == [type |-> type, weights |-> weights, bias |-> bias]

Eligible(blob) == blob.type \in {"Convolution", "InnerProduct"}

Nets ==
    { <<Blob("none", <<>>, <<>>), Blob("Convolution", <<1, 2>>, <<3>>),
        Blob("Pooling", <<>>, <<>>), Blob("InnerProduct", <<4>>, <<5>>)>>,
      <<Blob("Convolution", <<1, 0 - 1, 2>>, <<0>>)>>,
      <<Blob("Convolution", <<2>>, <<1, 0>>), Blob("InnerProduct", <<3, 1>>, <<1>>)>> }

\* lines 241-257: the number of weights and biases of the eligible layers
RECURSIVE calculate_param_count(_)
calculate_param_count(n) ==
    IF Len(n) = 0 THEN 0
    ELSE (IF Eligible(Head(n)) THEN Len(Head(n).weights) + Len(Head(n).bias) ELSE 0)
         + calculate_param_count(Tail(n))

\* lines 54-65: a copy of the weights and biases of the eligible layers, by blob
save_network_weights(n) ==
    [k \in 1..Len(n) |->
        IF Eligible(n[k])
        THEN [present |-> TRUE, weights |-> n[k].weights, bias |-> n[k].bias]
        ELSE [present |-> FALSE, weights |-> <<>>, bias |-> <<>>]]

\* a + b of two flat numpy arrays: elementwise, a length-1 operand is broadcast,
\* any other pair of lengths raises ValueError
CanAdd(a, b) == Len(a) = Len(b) \/ Len(a) = 1 \/ Len(b) = 1

AddB(a, b) ==
    IF Len(a) = Len(b) THEN [i \in 1..Len(a) |-> a[i] + b[i]]
    ELSE IF Len(b) = 1 THEN [i \in 1..Len(a) |-> a[i] + b[1]]
    ELSE [i \in 1..Len(b) |-> a[1] + b[i]]

\* arr.flat = val: val is repeated over arr; an empty val assigns nothing
FlatAssign(old, val) ==
    IF Len(val) = 0 THEN old
    ELSE [i \in 1..Len(old) |-> val[((i - 1) % Len(val)) + 1]]

\* base + vector1[lo:hi] + vector2[lo:hi], evaluated left to right
CanPerturb(base, v1, v2, lo, hi) ==
    /\ CanAdd(base, Slice(v1, lo, hi))
    /\ CanAdd(AddB(base, Slice(v1, lo, hi)), Slice(v2, lo, hi))

Perturb(base, v1, v2, lo, hi) == AddB(AddB(base, Slice(v1, lo, hi)), Slice(v2, lo, hi))

\* the update started from the live weights and biases instead of the saved ones
UpdateBaseAccumulate(blob, saved) == [weights |-> blob.weights, bias |-> blob.bias]

\* lines 91 and 98: the weights and biases the update starts from
UpdateBase(blob, saved) == [weights |-> saved.weights, bias |-> saved.bias]

\* the update without its second half: the bias is left as it is
UpdateLayerWeightsOnly(blob, saved, vector1, vector2) ==
    LET layer_length == Len(blob.weights)
        okW == CanPerturb(saved.weights, vector1, vector2, 0, layer_length)
    IN  [blob |-> [blob EXCEPT !.weights =
                      IF okW
                      THEN FlatAssign(blob.weights,
                               Perturb(saved.weights, vector1, vector2, 0, layer_length))
                      ELSE blob.weights],
         ok |-> okW]

\* lines 85-104 for one eligible layer: vec_idx is 0 at the layer's weights and the
\* number of its weights at its bias.  The layer as left by the update, and whether
\* an addition raised (the weights are assigned before the bias is computed).
UpdateLayer(blob, saved, vector1, vector2) ==
    LET vec_idx == 0
        layer_length == Len(blob.weights)
        bias_length == Len(blob.bias)
        base == UpdateBase(blob, saved)
        okW == CanPerturb(base.weights, vector1, vector2, vec_idx, vec_idx + layer_length)
        newW == IF okW
                THEN FlatAssign(blob.weights,
                         Perturb(base.weights, vector1, vector2,
                                 vec_idx, vec_idx + layer_length))
                ELSE blob.weights
        vec_idx2 == vec_idx + layer_length
        okB == okW /\ CanPerturb(base.bias, vector1, vector2, vec_idx2, vec_idx2 + bias_length)
        newB == IF okB
                THEN FlatAssign(blob.bias,
                         Perturb(base.bias, vector1, vector2,
                                 vec_idx2, vec_idx2 + bias_length))
                ELSE blob.bias
    IN  [blob |-> [blob EXCEPT !.weights = newW, !.bias = newB], ok |-> okB]

\* lines 77-107: the layers in the order of net.blobs, from blob k on.  The model is
\* changed in place: when an addition raises, the layers before it stay changed and
\* the layers after it are not reached.
RECURSIVE UpdateFrom(_, _, _, _, _)
UpdateFrom(n, layer_weights, vector1, vector2, k) ==
    IF k > Len(n) THEN [net |-> n, ok |-> TRUE]
    ELSE IF ~Eligible(n[k]) THEN UpdateFrom(n, layer_weights, vector1, vector2, k + 1)
    ELSE LET r == UpdateLayer(n[k], layer_weights[k], vector1, vector2)
             n2 == [n EXCEPT ![k] = r.blob]
         IN  IF r.ok THEN UpdateFrom(n2, layer_weights, vector1, vector2, k + 1)
             ELSE [net |-> n2, ok |-> FALSE]

update_net_params(n, layer_weights, vector1, vector2) ==
    UpdateFrom(n, layer_weights, vector1, vector2, 1)

\* ------------------------------------------------------- the forward pass

RECURSIVE SumParams(_)
SumParams(n) ==
    IF Len(n) = 0 THEN 0
    ELSE (IF Eligible(Head(n)) THEN SumSeq(Head(n).weights) + SumSeq(Head(n).bias) ELSE 0)
         + SumParams(Tail(n))

\* net.forward(data=[image])['prob'][0]: the probabilities of the two classes, in
\* units of 1 / ProbDen.  The forward pass is the model library's; it is taken to be
\* some function of the live parameters and the image, one per value of seed.
Forward(n, image, seed) ==
    LET k == (SumParams(n) + image + seed) % (ProbDen + 1)
    IN  <<k, ProbDen - k>>

\* prob.argmax(): the first of the largest entries (classes 0 and 1)
ArgMax(prob) == IF prob[1] >= prob[2] THEN 0 ELSE 1

\* prob[0][label]
ProbOf(prob, label) == prob[label + 1]

\* stored numbers
Num(a, b) == <<"num", a, b>>
NaN == <<"nan", 0, 1>>
NegLog(a, b) == <<"neglog", a, b>>

\* lines 192-195, 205-208, 218-221: nan for a probability of 0, else -(math.log(p))
LossOf(a, b) == IF a = 0 THEN NaN ELSE NegLog(a, b)

\* np.zeros((steps, steps))
Zeros(n) == [i \in 1..n |-> [j \in 1..n |-> Num(0, 1)]]

\* m[x][y] = v, 0-based
SetCell(m, x, y, v) == [m EXCEPT ![x + 1][y + 1] = v]

\* ------------------------------------------------------------------ the dataset

\* An lmdb of n records: record i (from 1) is pat[((i - 1) mod Len(pat)) + 1]
Record(db, i) == db.pat[((i - 1) % Len(db.pat)) + 1]

Rec(image, label) == [image |-> image, label |-> label]

Patterns == { <<Rec(0, 0), Rec(1, 1), Rec(2, 0)>>, <<Rec(1, 0), Rec(1, 1)>> }

\* ------------------------------------------------------------------ the state

VARIABLES
    pc,                   \* the position in create_loss_landscape / compute_loss_for_db
    exc,                  \* the exception that ended the call, or "none"
    net,                  \* the live model: the blobs with their weights and biases
    vectors,              \* the two direction vectors
    steps,
    seed,                 \* which forward-pass function the model computes
    best_image, best_label, worst_image, worst_label,
    lmdb_env,             \* the dataset
    cache,                \* dir/vector_grid1.npy and dir/vector_grid2.npy, or Absent
    vector_grid1, vector_grid2,
    layer_weights,        \* the snapshot
    x_idx, y_idx,
    loss_matrix, accuracy_matrix,
    best_image_loss, best_image_accuracy,
    worst_image_loss, worst_image_accuracy,
    count, correct, loss, \* compute_loss_for_db's counters
    db_ret,               \* what compute_loss_for_db returned: <<loss, accuracy>>
    calls,                \* calls of create_loss_landscape begun
    evals,                \* history: cells whose evaluation completed in this call
    writes,               \* history: writes[x][y], the stores into cell (x, y) of the
                          \* six matrices in this call
    gv_pc, gv_args, gv_vectors, gv_ret,   \* a call of get_gaussian_vector
    cg_args, cg_ret       \* a call of create_grid

landscape_vars ==
    <<pc, exc, net, vectors, steps, seed, best_image, best_label, worst_image,
      worst_label, lmdb_env, cache, vector_grid1, vector_grid2, layer_weights,
      x_idx, y_idx, loss_matrix, accuracy_matrix, best_image_loss,
      best_image_accuracy, worst_image_loss, worst_image_accuracy,
      count, correct, loss, db_ret, calls, evals, writes>>

gv_vars == <<gv_pc, gv_args, gv_vectors, gv_ret>>

cg_vars == <<cg_args, cg_ret>>

vars == <<landscape_vars, gv_vars, cg_vars>>

inputs == <<vectors, steps, seed, best_image, best_label, worst_image, worst_label,
            lmdb_env>>

matrices == <<loss_matrix, accuracy_matrix, best_image_loss, best_image_accuracy,
              worst_image_loss, worst_image_accuracy>>

db_counters == <<count, correct, loss>>

Absent == <<>>

Unset == <<>>

\* ------------------------------------------------------------- initial states

\* direction vectors of dimension n, entries multiples of Scale
Directions(n) ==
    { <<[i \in 1..n |-> Scale * i], [i \in 1..n |-> 0 - (Scale * 3 * i)]>>,
      <<[i \in 1..n |-> Scale], [i \in 1..n |-> Scale * i * i]>> }

\* the grids a run over dim parameters with psteps steps left in the directory
PriorDirection(dim) == [i \in 1..dim |-> Scale * (i + 1)]

PriorCache(dim, psteps) ==
    <<create_grid(VStackNeg(PriorDirection(dim)), psteps).val,
      create_grid(VStackNeg(Negative(PriorDirection(dim))), psteps).val>>

PriorCaches == { PriorCache(d, s) : d \in {2, 6}, s \in {1, MaxSteps} }

NoCall ==
    /\ exc = "none" /\ vector_grid1 = Unset /\ vector_grid2 = Unset
    /\ layer_weights = Unset /\ x_idx = 0 /\ y_idx = 0
    /\ loss_matrix = Unset /\ accuracy_matrix = Unset
    /\ best_image_loss = Unset /\ best_image_accuracy = Unset
    /\ worst_image_loss = Unset /\ worst_image_accuracy = Unset
    /\ count = 0 /\ correct = 0 /\ loss = 0 /\ db_ret = Unset
    /\ evals = 0 /\ writes = Unset

NoGaussCall == gv_pc = "idle" /\ gv_args = <<0, 0>> /\ gv_vectors = <<>> /\ gv_ret = Unset

NoGridCall == cg_args = <<>> /\ cg_ret = Unset

Samples ==
    /\ best_image = 0 /\ best_label = 0
    /\ worst_image = 1 /\ worst_label \in {0, 1}

\* create_loss_landscape is called on a loaded model
Init ==
    /\ pc = "LOAD_OR_COMPUTE_GRIDS"
    /\ calls = 1
    /\ net \in Nets
    /\ vectors \in Directions(calculate_param_count(net))
    /\ steps \in 1..MaxSteps
    /\ seed \in 0..ProbDen
    /\ Samples
    /\ lmdb_env \in [n : 1..MaxDb, pat : Patterns]
    /\ cache \in {Absent} \cup PriorCaches
    /\ NoCall /\ NoGaussCall /\ NoGridCall

\* ---------------------------------------------------------- compute_loss_for_db

\* lines 264-278
DbBegin ==
    /\ pc = "db_begin"
    /\ count' = 0 /\ correct' = 0 /\ loss' = 0
    /\ pc' = "db_loop"
    /\ UNCHANGED <<exc, net, inputs, cache, vector_grid1, vector_grid2, layer_weights,
                   x_idx, y_idx, matrices, db_ret, calls, evals, writes, gv_vars, cg_vars>>

\* the break taken one record late
CapAtOffByOne(c) == c = SampleCap + 1

CapAt(c) == c = SampleCap

\* lines 279-294: the next record of the cursor, and the break at the cap
DbStep ==
    /\ pc = "db_loop"
    /\ count < lmdb_env.n
    /\ LET rec == Record(lmdb_env, count + 1)
           out == Forward(net, rec.image, seed)
       IN  /\ count' = count + 1
           /\ loss' = loss + ProbOf(out, rec.label)
           /\ correct' = IF rec.label = ArgMax(out) THEN correct + 1 ELSE correct
    /\ pc' = IF CapAt(count') THEN "db_return" ELSE "db_loop"
    /\ UNCHANGED <<exc, net, inputs, cache, vector_grid1, vector_grid2, layer_weights,
                   x_idx, y_idx, matrices, db_ret, calls, evals, writes, gv_vars, cg_vars>>

\* line 279: the cursor is exhausted
DbExhausted ==
    /\ pc = "db_loop"
    /\ count >= lmdb_env.n
    /\ pc' = "db_return"
    /\ UNCHANGED <<exc, net, inputs, cache, vector_grid1, vector_grid2, layer_weights,
                   x_idx, y_idx, matrices, db_counters, db_ret, calls, evals, writes,
                   gv_vars, cg_vars>>

\* lines 298-301: loss / count and correct / count, in units of 1 / ProbDen for loss
DbReturn ==
    /\ pc = "db_return"
    /\ IF count = 0
       THEN /\ pc' = "RAISED" /\ exc' = "ZeroDivisionError" /\ db_ret' = db_ret
       ELSE /\ db_ret' = <<Num(loss, ProbDen * count), Num(correct, count)>>
            /\ pc' = "record" /\ exc' = exc
    /\ UNCHANGED <<net, inputs, cache, vector_grid1, vector_grid2, layer_weights,
                   x_idx, y_idx, matrices, db_counters, calls, evals, writes,
                   gv_vars, cg_vars>>

\* ------------------------------------------------------- create_loss_landscape

\* lines 152-164: the grids are loaded when both files exist, else built and saved
LoadOrComputeGrids ==
    /\ pc = "LOAD_OR_COMPUTE_GRIDS"
    /\ IF cache = Absent
       THEN /\ vector_grid1' = create_grid(VStackNeg(vectors[1]), steps).val
            /\ vector_grid2' = create_grid(VStackNeg(vectors[2]), steps).val
            /\ cache' = <<vector_grid1', vector_grid2'>>
       ELSE /\ vector_grid1' = cache[1]
            /\ vector_grid2' = cache[2]
            /\ cache' = cache
    /\ pc' = "INIT"
    /\ UNCHANGED <<exc, net, inputs, layer_weights, x_idx, y_idx, matrices,
                   db_counters, db_ret, calls, evals, writes, gv_vars, cg_vars>>

\* line 174: math.log raises ValueError at 0
DefaultLossRaises(p) == p = 0

\* lines 169-181: the snapshot, the default loss of the best sample, the six matrices
CaptureBaseline ==
    /\ pc = "INIT"
    /\ layer_weights' = save_network_weights(net)
    /\ IF DefaultLossRaises(ProbOf(Forward(net, best_image, seed), best_label))
       THEN /\ pc' = "RAISED" /\ exc' = "ValueError: math domain error"
            /\ UNCHANGED <<matrices, writes>>
       ELSE /\ pc' = IF steps = 0 THEN "DONE" ELSE "SCAN"
            /\ exc' = exc
            /\ loss_matrix' = Zeros(steps)
            /\ accuracy_matrix' = Zeros(steps)
            /\ best_image_loss' = Zeros(steps)
            /\ best_image_accuracy' = Zeros(steps)
            /\ worst_image_loss' = Zeros(steps)
            /\ worst_image_accuracy' = Zeros(steps)
            /\ writes' = [i \in 1..steps |-> [j \in 1..steps |-> 0]]
    /\ x_idx' = 0 /\ y_idx' = 0 /\ evals' = 0
    /\ UNCHANGED <<net, inputs, cache, vector_grid1, vector_grid2, db_counters, db_ret,
                   calls, gv_vars, cg_vars>>

\* line 186: rows x_idx and y_idx of the grids, then update_net_params
ApplyCell ==
    /\ pc = "SCAN"
    /\ IF x_idx >= Len(vector_grid1) \/ y_idx >= Len(vector_grid2)
       THEN /\ pc' = "RAISED" /\ exc' = "IndexError" /\ net' = net
       ELSE LET r == update_net_params(net, layer_weights, vector_grid1[x_idx + 1],
                                       vector_grid2[y_idx + 1])
            IN  /\ net' = r.net
                /\ pc' = IF r.ok THEN "db_begin" ELSE "RAISED"
                /\ exc' = IF r.ok THEN exc ELSE "ValueError: operands could not be broadcast"
    /\ UNCHANGED <<inputs, cache, vector_grid1, vector_grid2, layer_weights, x_idx, y_idx,
                   matrices, db_counters, db_ret, calls, evals, writes, gv_vars, cg_vars>>

\* lines 190-199: the dataset's cell
RecordDataset ==
    /\ pc = "record"
    /\ loss_matrix' = SetCell(loss_matrix, x_idx, y_idx, LossOf(db_ret[1][2], db_ret[1][3]))
    /\ accuracy_matrix' = SetCell(accuracy_matrix, x_idx, y_idx, db_ret[2])
    /\ writes' = [writes EXCEPT ![x_idx + 1][y_idx + 1] = @ + 2]
    /\ pc' = "samples"
    /\ UNCHANGED <<exc, net, inputs, cache, vector_grid1, vector_grid2, layer_weights,
                   x_idx, y_idx, best_image_loss, best_image_accuracy, worst_image_loss,
                   worst_image_accuracy, db_counters, db_ret, calls, evals,
                   gv_vars, cg_vars>>

\* the loops exchanged: y outer, x inner
NextCellColumnMajor(x, y) ==
    IF x + 1 < steps THEN <<x + 1, y>>
    ELSE IF y + 1 < steps THEN <<0, y + 1>>
    ELSE <<steps, 0>>

\* the loop headers of lines 182-183 after cell (x, y): the next cell, <<steps, 0>> at the end
NextCell(x, y) ==
    IF y + 1 < steps THEN <<x, y + 1>>
    ELSE <<x + 1, 0>>

\* lines 202-226: the best and the worst sample's cells; then the next cell
EvalSamples ==
    /\ pc = "samples"
    /\ LET best == Forward(net, best_image, seed)
           worst == Forward(net, worst_image, seed)
       IN  /\ best_image_loss' =
                 SetCell(best_image_loss, x_idx, y_idx,
                         LossOf(ProbOf(best, best_label), ProbDen))
           /\ best_image_accuracy' =
                 SetCell(best_image_accuracy, x_idx, y_idx,
                         IF ArgMax(best) = best_label THEN Num(1, 1) ELSE Num(0, 1))
           /\ worst_image_loss' =
                 SetCell(worst_image_loss, x_idx, y_idx,
                         LossOf(ProbOf(worst, worst_label), ProbDen))
           /\ worst_image_accuracy' =
                 SetCell(worst_image_accuracy, x_idx, y_idx,
                         IF ArgMax(worst) = worst_label THEN Num(1, 1) ELSE Num(0, 1))
    /\ writes' = [writes EXCEPT ![x_idx + 1][y_idx + 1] = @ + 4]
    /\ evals' = evals + 1
    /\ x_idx' = NextCell(x_idx, y_idx)[1]
    /\ y_idx' = NextCell(x_idx, y_idx)[2]
    /\ pc' = IF x_idx' < steps THEN "SCAN" ELSE "DONE"
    /\ UNCHANGED <<exc, net, inputs, cache, vector_grid1, vector_grid2, layer_weights,
                   loss_matrix, accuracy_matrix, db_counters, db_ret, calls,
                   gv_vars, cg_vars>>

\* create_loss_landscape is called again on the same model, directory and inputs
CallAgain ==
    /\ pc = "DONE"
    /\ calls < MaxCalls
    /\ calls' = calls + 1
    /\ pc' = "LOAD_OR_COMPUTE_GRIDS"
    /\ UNCHANGED <<exc, net, inputs, cache, vector_grid1, vector_grid2, layer_weights,
                   x_idx, y_idx, matrices, db_counters, db_ret, evals, writes,
                   gv_vars, cg_vars>>

Next ==
    \/ LoadOrComputeGrids
    \/ CaptureBaseline
    \/ ApplyCell
    \/ DbBegin
    \/ DbStep
    \/ DbExhausted
    \/ DbReturn
    \/ RecordDataset
    \/ EvalSamples
    \/ CallAgain

Spec == Init /\ [][Next]_vars

\* ------------------------------------------- compute_loss_for_db on its own

\* the sizes of the datasets: empty, small, and around and beyond the cap
DbSizes == (0..MaxDb) \cup ((SampleCap - 1)..(SampleCap + MaxOver)) \cup {SampleCap + SampleCap \div 2}

InitDb ==
    /\ pc = "db_begin"
    /\ calls = 0
    /\ net = <<Blob("Convolution", <<1, 2>>, <<3>>)>>
    /\ vectors = <<>> /\ steps = 0
    /\ seed \in 0..ProbDen
    /\ Samples
    /\ lmdb_env \in [n : DbSizes, pat : Patterns]
    /\ cache = Absent
    /\ NoCall /\ NoGaussCall /\ NoGridCall

NextDb ==
    \/ DbBegin
    \/ DbStep
    \/ DbExhausted
    \/ DbReturn

SpecDb == InitDb /\ [][NextDb]_vars

\* the landscape is not running
LandscapeIdle ==
    /\ pc = "idle" /\ calls = 0 /\ net = <<>> /\ vectors = <<>> /\ steps = 0 /\ seed = 0
    /\ best_image = 0 /\ best_label = 0 /\ worst_image = 0 /\ worst_label = 0
    /\ lmdb_env = [n |-> 0, pat |-> <<>>] /\ cache = Absent
    /\ NoCall

\* ------------------------------------------------- get_gaussian_vector, a call

InitGauss ==
    /\ gv_pc = "call"
    /\ gv_args \in (0..MaxCols) \X (0..MaxCount)
    /\ gv_vectors = <<>> /\ gv_ret = Unset
    /\ LandscapeIdle /\ NoGridCall

\* lines 20-24: the sentinel 0, or the first row
GaussEnter ==
    /\ gv_pc = "call"
    /\ IF gv_args[1] = 0 \/ gv_args[2] = 0
       THEN /\ gv_ret' = Sentinel("zero") /\ gv_pc' = "returned"
            /\ gv_vectors' = gv_vectors
       ELSE /\ \E x \in RawRows(gv_args[1]) : gv_vectors' = <<FirstRow(x)>>
            /\ gv_pc' = "loop" /\ gv_ret' = gv_ret
    /\ UNCHANGED <<gv_args, landscape_vars, cg_vars>>

\* lines 25-32: one more row, normalised
GaussRow ==
    /\ gv_pc = "loop"
    /\ Len(gv_vectors) < gv_args[2]
    /\ \E x \in RawRows(gv_args[1]) : gv_vectors' = Append(gv_vectors, NormalizeRow(x))
    /\ UNCHANGED <<gv_pc, gv_args, gv_ret, landscape_vars, cg_vars>>

\* line 33
GaussReturn ==
    /\ gv_pc = "loop"
    /\ Len(gv_vectors) >= gv_args[2]
    /\ gv_ret' = Value(gv_vectors)
    /\ gv_pc' = "returned"
    /\ UNCHANGED <<gv_args, gv_vectors, landscape_vars, cg_vars>>

NextGauss ==
    \/ GaussEnter
    \/ GaussRow
    \/ GaussReturn

SpecGauss == InitGauss /\ [][NextGauss]_vars

\* --------------------------------------------------------- create_grid, a call

GridValues == {0 - (2 * Scale), 0 - Scale, 0, Scale, 2 * Scale}

\* None, flat vectors, matrices of 1 to 3 rows, and a ragged pair of rows
GridArgs ==
    {[shape |-> "none", rows |-> <<>>]}
    \cup {[shape |-> "1d", rows |-> <<v>>] :
             v \in UNION {[1..n -> {0, Scale}] : n \in 0..(MaxCols + 1)}}
    \cup {Arg2d(<<a, b>>) :
             a, b \in UNION {[1..n -> GridValues] : n \in 0..MaxCols}}
    \cup {[shape |-> "2d", rows |-> <<v>>] : v \in UNION {[1..n -> {0, Scale}] : n \in 0..MaxCols}}
    \cup {[shape |-> "2d", rows |-> <<v, v, Negative(v)>>] :
             v \in UNION {[1..n -> {0, Scale}] : n \in 0..MaxCols}}

\* a 2d argument's rows have one length; two rows of different lengths are ragged
Shaped(arg) ==
    IF arg.shape = "2d" /\ Len(arg.rows) = 2 /\ Len(arg.rows[1]) # Len(arg.rows[2])
    THEN [arg EXCEPT !.shape = "ragged"]
    ELSE arg

InitGrid ==
    /\ cg_args \in {<<Shaped(a), n>> : a \in GridArgs, n \in 0..MaxSteps}
    /\ cg_ret = Unset
    /\ LandscapeIdle /\ NoGaussCall

CallCreateGrid ==
    /\ cg_ret = Unset
    /\ cg_ret' = create_grid(cg_args[1], cg_args[2])
    /\ UNCHANGED <<cg_args, landscape_vars, gv_vars>>

NextGrid == CallCreateGrid

SpecGrid == InitGrid /\ [][NextGrid]_vars

\* ================================================================== the claims

ScanStates == {"SCAN", "db_begin", "db_loop", "db_return", "record", "samples"}

\* the positions between update_net_params for cell (x_idx, y_idx) and the next cell
AfterApply == pc \in {"db_begin", "db_loop", "db_return", "record", "samples"}

\* the model with the snapshot's weights and biases put back
Baseline(n, lw) ==
    [k \in 1..Len(n) |->
        IF lw[k].present
        THEN [n[k] EXCEPT !.weights = lw[k].weights, !.bias = lw[k].bias]
        ELSE n[k]]

ParamCount == calculate_param_count(net)

\* the grids have the dimensions of this call: steps rows of param_count columns
GridFits(g) == Len(g) = steps /\ \A i \in 1..Len(g) : Len(g[i]) = ParamCount

\* the first index of layer k's parameters in the flattened parameter vector
LayerOffset(k) == calculate_param_count(SubSeq(net, 1, k - 1))

\* entry j of layer k's weights (bias) is the snapshot's plus entry off + j of both rows
AddedAt(live, saved, off, row1, row2) ==
    \A j \in 1..Len(live) : live[j] = saved[j] + row1[off + j] + row2[off + j]

\* layer k is its snapshot plus one run of consecutive entries of both rows: its weights
\* plus the entries from some index on, its bias plus the entries after those
LayerIsSnapshotPlus(k, row1, row2) ==
    \E lo \in 0..(Len(row1) - Len(net[k].weights) - Len(net[k].bias)) :
        /\ AddedAt(net[k].weights, layer_weights[k].weights, lo, row1, row2)
        /\ AddedAt(net[k].bias, layer_weights[k].bias, lo + Len(net[k].weights),
                   row1, row2)

\* C1: after update_net_params for cell (x, y), with rows of param_count entries, layer
\* k's weights have taken the entries from the running offset (the parameter count of
\* the eligible layers before k) and its bias the entries after them, so that every
\* entry of the rows is added to exactly one parameter
C1_ContiguousSlices ==
    (AfterApply /\ GridFits(vector_grid1) /\ GridFits(vector_grid2)) =>
        \A k \in 1..Len(net) :
            Eligible(net[k]) =>
                /\ AddedAt(net[k].weights, layer_weights[k].weights, LayerOffset(k),
                           vector_grid1[x_idx + 1], vector_grid2[y_idx + 1])
                /\ AddedAt(net[k].bias, layer_weights[k].bias,
                           LayerOffset(k) + Len(net[k].weights),
                           vector_grid1[x_idx + 1], vector_grid2[y_idx + 1])

\* C2: after update_net_params for cell (x, y) the live model is what one update of
\* the baseline (the model with the snapshot put back) with rows x and y gives,
\* whatever cells were applied before; with grids of this call's dimensions every
\* eligible layer is its snapshot plus entries of rows x and y
C2_NoDrift ==
    AfterApply =>
        /\ net = update_net_params(Baseline(net, layer_weights), layer_weights,
                                   vector_grid1[x_idx + 1], vector_grid2[y_idx + 1]).net
        /\ (GridFits(vector_grid1) /\ GridFits(vector_grid2)) =>
            \A k \in 1..Len(net) :
                Eligible(net[k]) =>
                    LayerIsSnapshotPlus(k, vector_grid1[x_idx + 1], vector_grid2[y_idx + 1])

\* C2's case: a cell applied after at least two others, on a perturbed model
C2_Witness ==
    /\ pc = "db_begin" /\ evals >= 2
    /\ net # Baseline(net, layer_weights)

\* a row of the sampler's matrix has mean 0
MeanZero(r) == SumSeq(r.num) = 0

\* a row of the sampler's matrix has standard deviation 1, or is all zeros
StdOneOrZero(r) ==
    \/ \A i \in 1..Len(r.num) : r.num[i] = 0
    \/ SumSq(r.num) * r.sd2[2] = r.den * r.den * r.sd2[1] * Len(r.num)

\* C3: for dimension > 0 and count > 0 get_gaussian_vector returns count rows of
\* dimension entries, every row, the first included, mean-centred and divided by its
\* standard deviation (unless that is zero)
C3_EveryRowNormalised ==
    (gv_pc = "returned" /\ gv_args[1] > 0 /\ gv_args[2] > 0) =>
        /\ gv_ret.kind = "value"
        /\ Len(gv_ret.val) = gv_args[2]
        /\ \A i \in 1..Len(gv_ret.val) :
            /\ Len(gv_ret.val[i].num) = gv_args[1]
            /\ MeanZero(gv_ret.val[i])
            /\ StdOneOrZero(gv_ret.val[i])

\* create_grid was called with two rows of one length >= 1 and steps >= 1
GridCallWellFormed ==
    /\ cg_ret # Unset
    /\ cg_args[1].shape = "2d" /\ Len(cg_args[1].rows) = 2
    /\ Len(cg_args[1].rows[1]) >= 1
    /\ cg_args[2] >= 1

\* the result is steps x columns, column c linearly spaced from start[c]: entry i is
\* start + i (end - start) / (steps - 1), so the end is reached when steps >= 2; the
\* column is monotonic
GridIsLinear ==
    LET start == cg_args[1].rows[1]
        end == cg_args[1].rows[2]
        n == cg_args[2]
        m == cg_ret.val
    IN  /\ cg_ret.kind = "value"
        /\ Len(m) = n
        /\ \A i \in 1..n : Len(m[i]) = Len(start)
        /\ m[1] = start
        /\ n = 2 => m = <<start, end>>
        /\ \A c \in 1..Len(start) :
            /\ \A i \in 1..n : (n - 1) * (m[i][c] - start[c]) = (i - 1) * (end[c] - start[c])
            /\ \A i \in 1..(n - 1) :
                /\ start[c] <= end[c] => m[i][c] <= m[i + 1][c]
                /\ start[c] >= end[c] => m[i][c] >= m[i + 1][c]

\* the endpoints are a direction and its negation
EvaluatorEndpoints == cg_args[1].rows[2] = Negative(cg_args[1].rows[1])

\* C4, as amended: for two rows of >= 1 columns and steps >= 1 create_grid returns the
\* steps x columns matrix of linearly spaced, monotonic columns from start (row 0);
\* steps = 1 gives the start row, steps = 2 gives [start, end]; with the endpoints
\* (direction, -direction) row 0 is +direction, and row steps-1 is -direction when
\* steps >= 2
C4_Grid ==
    GridCallWellFormed =>
        /\ GridIsLinear
        /\ EvaluatorEndpoints =>
            /\ cg_ret.val[1] = cg_args[1].rows[1]
            /\ cg_args[2] >= 2 => cg_ret.val[cg_args[2]] = Negative(cg_args[1].rows[1])

\* C4 as stated: with the endpoints (direction, -direction) row steps-1 is -direction
\* for every steps >= 1
C4_GridAsStated ==
    GridCallWellFormed =>
        /\ GridIsLinear
        /\ EvaluatorEndpoints =>
            /\ cg_ret.val[1] = cg_args[1].rows[1]
            /\ cg_ret.val[cg_args[2]] = Negative(cg_args[1].rows[1])

\* C4's case: a grid of three or more steps over two columns, from a nonzero direction
\* to its negation
C4_Witness ==
    /\ GridCallWellFormed /\ EvaluatorEndpoints
    /\ cg_args[2] >= 3 /\ Len(cg_args[1].rows[1]) >= 2
    /\ cg_args[1].rows[1][1] > 0 /\ cg_args[1].rows[1][2] < 0
    /\ cg_ret.kind = "value"

\* a stored number is finite or nan
FiniteOrNaN(v) ==
    \/ v = NaN
    \/ v[1] = "neglog" /\ v[2] > 0 /\ v[3] > 0

InUnitInterval(v) == v[1] = "num" /\ v[3] > 0 /\ 0 <= v[2] /\ v[2] <= v[3]

ZeroOrOne(v) == v \in {Num(0, 1), Num(1, 1)}

IsSquare(m) == Len(m) = steps /\ \A i \in 1..Len(m) : Len(m[i]) = steps

\* C5: create_loss_landscape never raises an arithmetic fault, whatever probabilities
\* the forward pass returns (0 for the true class included, at the baseline or at a
\* cell), and returns six steps x steps matrices of finite-or-nan losses, accuracies in
\* [0, 1] and correctness 0 or 1
C5_NoArithmeticFault ==
    /\ exc \notin {"ValueError: math domain error", "ZeroDivisionError"}
    /\ pc = "DONE" =>
        /\ \A m \in {loss_matrix, accuracy_matrix, best_image_loss, best_image_accuracy,
                     worst_image_loss, worst_image_accuracy} : IsSquare(m)
        /\ \A i, j \in 1..steps :
            /\ FiniteOrNaN(loss_matrix[i][j])
            /\ FiniteOrNaN(best_image_loss[i][j])
            /\ FiniteOrNaN(worst_image_loss[i][j])
            /\ InUnitInterval(accuracy_matrix[i][j])
            /\ ZeroOrOne(best_image_accuracy[i][j])
            /\ ZeroOrOne(worst_image_accuracy[i][j])

\* the true-class probability and the correctness of record i under the live model
RecordProb(i) ==
    ProbOf(Forward(net, Record(lmdb_env, i).image, seed), Record(lmdb_env, i).label)

RecordCorrect(i) ==
    IF ArgMax(Forward(net, Record(lmdb_env, i).image, seed)) = Record(lmdb_env, i).label
    THEN 1 ELSE 0

\* the sum of the first k entries of the sequence that repeats vals: whole repetitions
\* of vals, then the rest
PatternSum(vals, k) ==
    (k \div Len(vals)) * SumSeq(vals) + SumSeq(SubSeq(vals, 1, k % Len(vals)))

PatternProbs == [i \in 1..Len(lmdb_env.pat) |-> RecordProb(i)]

PatternCorrects == [i \in 1..Len(lmdb_env.pat) |-> RecordCorrect(i)]

Consumed == Min(lmdb_env.n, SampleCap)

\* C6: compute_loss_for_db reads the records in order from the first and consumes
\* min(N, 10000) of them; mean_loss is the sum of their true-class probabilities over
\* that number, accuracy the number of them classified correctly over that number
C6_DbAggregate ==
    /\ pc \in {"db_loop", "db_return", "record"} => count <= Consumed
    /\ pc \in {"db_return", "record"} => count = Consumed
    /\ pc = "record" =>
        db_ret = <<Num(PatternSum(PatternProbs, Consumed), ProbDen * Consumed),
                   Num(PatternSum(PatternCorrects, Consumed), Consumed)>>

\* C6's case: a dataset larger than the cap, evaluated and returned
C6_Witness ==
    /\ pc = "record" /\ lmdb_env.n > SampleCap
    /\ count = SampleCap /\ db_ret # Unset

\* how far the evaluation of the current cell has come
Stage ==
    CASE pc = "SCAN" -> 0
      [] pc = "db_begin" -> 1
      [] pc = "db_loop" -> 2 + count
      [] pc = "db_return" -> 3 + lmdb_env.n
      [] pc = "record" -> 4 + lmdb_env.n
      [] pc = "samples" -> 5 + lmdb_env.n
      [] OTHER -> 0

Progress == evals * (6 + lmdb_env.n) + Stage

\* the stores cell (i, j) has had when the cell being evaluated is (x_idx, y_idx)
StoresDue(i, j) ==
    IF (i - 1) * steps + (j - 1) < evals THEN 6
    ELSE IF (i - 1) * steps + (j - 1) = evals /\ pc = "samples" THEN 2
    ELSE 0

ScanShape ==
    /\ pc \in ScanStates =>
        /\ x_idx < steps /\ y_idx < steps
        /\ evals = x_idx * steps + y_idx
    /\ pc \in ScanStates \cup {"DONE"} =>
        /\ \A m \in {loss_matrix, accuracy_matrix, best_image_loss, best_image_accuracy,
                     worst_image_loss, worst_image_accuracy} : IsSquare(m)
        /\ IsSquare(writes)
        /\ \A i, j \in 1..steps : writes[i][j] = StoresDue(i, j)
    /\ pc = "DONE" => evals = steps * steps

\* a step of the scan changes no cell but (x_idx, y_idx), and moves the evaluation on
ScanStep ==
    pc \in ScanStates =>
        /\ \A i, j \in 1..steps :
            <<i, j>> # <<x_idx + 1, y_idx + 1>> =>
                /\ loss_matrix'[i][j] = loss_matrix[i][j]
                /\ accuracy_matrix'[i][j] = accuracy_matrix[i][j]
                /\ best_image_loss'[i][j] = best_image_loss[i][j]
                /\ best_image_accuracy'[i][j] = best_image_accuracy[i][j]
                /\ worst_image_loss'[i][j] = worst_image_loss[i][j]
                /\ worst_image_accuracy'[i][j] = worst_image_accuracy[i][j]
        /\ pc' \in ScanStates => Progress' > Progress
        /\ pc' \in ScanStates \cup {"DONE", "RAISED"}

\* C7: the scan visits the cells row-major, x outer and y inner, both over [0, steps);
\* every cell of the six matrices is stored exactly once, only cell (x, y) while (x, y)
\* is evaluated; the matrices keep their size; every step of the scan moves it on
\* (the progress is bounded by steps * steps cells), and it is DONE after exactly
\* steps * steps evaluations
C7_ScanOrder == [][ScanShape /\ ScanStep /\ ScanShape']_vars

\* C7's case: a finished scan of more than one row
C7_Witness == pc = "DONE" /\ steps >= 2 /\ evals = steps * steps

\* C8: grids whose dimensions do not fit this call's direction vectors and steps (they
\* can only have come from the cache) are never applied to the model
C8_StaleCacheDetected ==
    AfterApply => GridFits(vector_grid1) /\ GridFits(vector_grid2)

\* the call of create_grid is degenerate: steps = 0, or not two rows of one length >= 1
GridCallDegenerate ==
    /\ cg_ret # Unset
    /\ \/ cg_args[2] = 0
       \/ cg_args[1].shape # "2d"
       \/ Len(cg_args[1].rows) # 2
       \/ Len(cg_args[1].rows[1]) = 0

\* C9: a degenerate call of create_grid (steps = 0, or an input that is not two rows of
\* equal length >= 1: flat, ragged, two empty rows) returns the sentinel and raises
\* nothing
C9_SentinelNeverFault == GridCallDegenerate => cg_ret.kind = "None"

\* the model create_loss_landscape was first called on
OriginalNet ==
    CHOOSE n \in Nets :
        /\ Len(n) = Len(net)
        /\ \A k \in 1..Len(n) : n[k].type = net[k].type

\* the live model when the k-th call returns: the model at its entry with the last
\* rows of the grids applied
RECURSIVE NetAfterCalls(_)
NetAfterCalls(k) ==
    IF k = 0 THEN OriginalNet
    ELSE update_net_params(NetAfterCalls(k - 1), save_network_weights(NetAfterCalls(k - 1)),
                           vector_grid1[steps], vector_grid2[steps]).net

\* the grids are the ones create_grid builds from this call's directions
GridsBuilt ==
    /\ vector_grid1 = create_grid(VStackNeg(vectors[1]), steps).val
    /\ vector_grid2 = create_grid(VStackNeg(vectors[2]), steps).val

\* the last grid rows of a built grid: the negated directions, but the directions
\* themselves when steps = 1
LastRowsOfBuilt ==
    /\ vector_grid1[steps] = IF steps >= 2 THEN Negative(vectors[1]) ELSE vectors[1]
    /\ vector_grid2[steps] = IF steps >= 2 THEN Negative(vectors[2]) ELSE vectors[2]

\* C10, as amended: when create_loss_landscape returns, the live parameters are the
\* snapshot plus the slices of the last grid rows (what one update of the baseline with
\* these rows gives), nothing is restored, and the next
\* call's snapshot is that perturbed state; the last rows of built grids are the
\* negated directions when steps >= 2 and the directions when steps = 1
C10_NoRestore ==
    /\ pc = "DONE" =>
        /\ net = update_net_params(Baseline(net, layer_weights), layer_weights,
                                   vector_grid1[steps], vector_grid2[steps]).net
        /\ net = NetAfterCalls(calls)
        /\ (GridFits(vector_grid1) /\ GridFits(vector_grid2)) =>
            \A k \in 1..Len(net) :
                Eligible(net[k]) =>
                    LayerIsSnapshotPlus(k, vector_grid1[steps], vector_grid2[steps])
        /\ GridsBuilt => LastRowsOfBuilt
    /\ (pc \in ScanStates \cup {"DONE"} /\ calls >= 1) =>
        layer_weights = save_network_weights(NetAfterCalls(calls - 1))

\* C10 as stated: on return the live parameters are the snapshot plus the slices of
\* the negated directions, for every steps >= 1 (grids built by this run)
C10_AsStated ==
    (pc = "DONE" /\ GridsBuilt) =>
        net = update_net_params(Baseline(net, layer_weights), layer_weights,
                                Negative(vectors[1]), Negative(vectors[2])).net

\* C10's case: a second call has taken its snapshot from a model the first call left
\* perturbed
C10_Witness ==
    /\ pc = "DONE" /\ calls = 2
    /\ layer_weights # save_network_weights(OriginalNet)
    /\ net # Baseline(net, layer_weights)

====
